---- MODULE Spec2Model ----
(***************************************************************************)
(* Model of installVersion (backend/wine/manager/downloader/main.ts): the  *)
(* pipeline that downloads a release archive, verifies its SHA-512 against *)
(* a checksum manifest, extracts it into <installDir>/<version> and, when  *)
(* overwriting, renames the old install aside and restores or discards it. *)
(*                                                                         *)
(* The file system is three paths: the archive file tarFile, the install   *)
(* subdirectory installSubDir and the backup directory installSubDir +     *)
(* "_backup".  The three paths are taken to be pairwise distinct (the      *)
(* archive's name carries an extension the version name does not).         *)
(* Successive calls of installVersion run over the same file system.       *)
(***************************************************************************)
EXTENDS Integers, Sequences, FiniteSets, TLC

\* ---------------------------------------------------------------- bounds
\* Number of installVersion calls made one after the other.
MaxRuns == 3
\* Progress reports made by the fetcher, and by the extractor, in one run.
MaxChunks == 1
\* Longest checksum manifest text, in characters.
MaxManifestLen == 3

VARIABLES
    installDirKind,  \* what installDir is on disk: "missing", "file" or "dir"
    tarFile,         \* contents of the archive file, or "absent"
    installSubDir,   \* the directory <installDir>/<version>
    backupDir,       \* the directory <installDir>/<version>_backup
    versionInfo,     \* the version record the caller passes (and gets back)
    overwrite,       \* the overwrite argument of the running call
    sourceChecksum,  \* the manifest text fetched for versionInfo.checksum
    pc,              \* where the running call is
    outcome,         \* how the last call ended: "none", "success" or an error
    returned,        \* the installDir field of the value the call resolved with
    chunks,          \* progress reports made in the current phase
    runs,            \* calls started so far
    start,           \* the on-disk state and the record when the call started
    fetcherCalls,    \* downloadFile invocations of the running call
    extractorCalls,  \* unzipFile invocations of the running call
    touched,         \* file-system mutations issued by the running call
    trace,           \* phases the running call entered, in order
    progressLog,     \* states handed to onProgress by the running call
    prev,            \* how the call before the running one went
    rejection,       \* the rejection the running call got from a collaborator
    downloadChecksum \* the hex digest computed from the downloaded archive

vars == <<installDirKind, tarFile, installSubDir, backupDir, versionInfo,
          overwrite, sourceChecksum, pc, outcome, returned, chunks, runs,
          start, fetcherCalls, extractorCalls, touched, trace, progressLog,
          prev, rejection, downloadChecksum>>

\* ------------------------------------------------------- directories
Absent == [state |-> "absent", gen |-> 0]
EmptyDir == [state |-> "empty", gen |-> 0]
\* A directory the extractor of call g has written only part of.
Partial(g) == [state |-> "partial", gen |-> g]
\* A complete install: gen 0 predates the first call, gen g was extracted
\* by call g.
Complete(g) == [state |-> "complete", gen |-> g]

\* ------------------------------------------------------- archive bytes
\* The byte strings the server may deliver for the download URL.
Archives == {"arcA", "arcB"}
HexChars == {"a", "b"}

\* crypto.createHash('sha512').update(buf).digest('hex'), shortened to two
\* hex characters; distinct archives have distinct digests.
Sha512Hex(bytes) == IF bytes = "arcA" THEN <<"a", "b">> ELSE <<"b", "a">>

\* The texts a checksum manifest URL may return, the empty text included.
Manifests == UNION {[1..n -> HexChars] : n \in 0..MaxManifestLen}

\* String.prototype.includes: sub occurs in text as a contiguous substring.
Includes(text, sub) ==
    \E i \in 0..(Len(text) - Len(sub)) :
        \A j \in 1..Len(sub) : text[i + j] = sub[j]

\* JavaScript truthiness of `string | undefined`: undefined and "" are falsy.
Truthy(s) == s.defined /\ Len(s.text) > 0

Undefined == [defined |-> FALSE, text |-> <<>>]
Text(t) == [defined |-> TRUE, text |-> t]

\* ------------------------------------------------------- fs primitives
existsSync(d) == d.state # "absent"

\* unlinkFile(tarFile): the file is gone afterwards, whether it existed or not.
unlinkFile(f) == "absent"

\* getFolderSize: the measured size of a directory.
getFolderSize(d) ==
    CASE d.state = "complete" -> 2 + d.gen
      [] d.state = "partial" -> 1
      [] OTHER -> 0

\* rmSync(path, { recursive: true }), without force: ENOENT when the path
\* does not exist, otherwise the directory is removed.
rmSync(d) ==
    IF existsSync(d) THEN [ok |-> TRUE, dir |-> Absent, error |-> "none"]
    ELSE [ok |-> FALSE, dir |-> d, error |-> "ENOENT"]

\* A rename-aside guarded by existsSync: nothing to move is no error.
renameSyncMissingOk(from, to) ==
    CASE ~existsSync(from) ->
            [ok |-> TRUE, from |-> from, to |-> to, error |-> "none"]
      [] existsSync(to) /\ to.state # "empty" ->
            [ok |-> FALSE, from |-> from, to |-> to, error |-> "ENOTEMPTY"]
      [] OTHER ->
            [ok |-> TRUE, from |-> Absent, to |-> from, error |-> "none"]

\* renameSync(from, to) on directories: ENOENT when `from` does not exist,
\* ENOTEMPTY when `to` is a directory with entries; an empty `to` is replaced.
renameSync(from, to) ==
    CASE ~existsSync(from) ->
            [ok |-> FALSE, from |-> from, to |-> to, error |-> "ENOENT"]
      [] existsSync(to) /\ to.state # "empty" ->
            [ok |-> FALSE, from |-> from, to |-> to, error |-> "ENOTEMPTY"]
      [] OTHER ->
            [ok |-> TRUE, from |-> Absent, to |-> from, error |-> "none"]

\* mkdirSync(path): EEXIST when the path exists; `allowed` is FALSE when the
\* system refuses for another reason (permissions, disk full).
mkdirSync(d, allowed) ==
    IF allowed /\ ~existsSync(d) THEN [ok |-> TRUE, dir |-> EmptyDir]
    ELSE [ok |-> FALSE, dir |-> d]

\* ------------------------------------------------- external collaborators
\* downloadFile streaming bytes to the archive file: a partial file.
FetcherWrite == "partial"
\* unzipFile writing into unzipDir during call g, creating it when absent.
ExtractorWrite(g) == Partial(g)
\* unzipFile having unpacked the whole archive during call g.
ExtractorDone(g) == Complete(g)

\* ------------------------------------------------------- requests
DownloadUrls == {"", "https://host/wine.tar.xz"}
ChecksumUrls == {"", "https://host/wine.sha512sum"}

\* ------------------------------------------------------- installVersion
\* A faulty abortHandler that forgets unlinkFile(tarFile).
abortHandlerKeepsArchive(tar, inst) ==
    [tarFile       |-> tar,
     installSubDir |-> IF existsSync(inst) THEN rmSync(inst).dir ELSE inst,
     touched       |-> IF existsSync(inst) THEN {"rmInstall"} ELSE {},
     error         |-> "AbortError"]

\* A faulty abortHandler that forgets to remove the install subdirectory.
abortHandlerKeepsInstall(tar, inst) ==
    [tarFile       |-> unlinkFile(tar),
     installSubDir |-> inst,
     touched       |-> {"unlink"},
     error         |-> "AbortError"]

\* A faulty abortHandler that forgets `error.name = 'AbortError'`.
abortHandlerUnnamed(tar, inst) ==
    [tarFile       |-> unlinkFile(tar),
     installSubDir |-> IF existsSync(inst) THEN rmSync(inst).dir ELSE inst,
     touched       |-> IF existsSync(inst) THEN {"unlink", "rmInstall"}
                       ELSE {"unlink"},
     error         |-> "Error"]

\* abortHandler: delete the archive, remove the install subdirectory when it
\* exists, throw an error named AbortError.
abortHandler(tar, inst) ==
    [tarFile       |-> unlinkFile(tar),
     installSubDir |-> IF existsSync(inst) THEN rmSync(inst).dir ELSE inst,
     touched       |-> IF existsSync(inst) THEN {"unlink", "rmInstall"}
                       ELSE {"unlink"},
     error         |-> "AbortError"]

\* A faulty already-installed test with the overwrite flag inverted.
AlreadyInstalledInverted(inst, ow) == existsSync(inst) /\ ow

\* `existsSync(installSubDir) && !overwrite`
AlreadyInstalled(inst, ow) == existsSync(inst) /\ ~ow

\* `sourceChecksum && !sourceChecksum.includes(downloadChecksum)`
ChecksumFails(src, digest) == Truthy(src) /\ ~Includes(src.text, digest)

\* A faulty download catch handler that leaves the partial archive behind.
DownloadFailedKeepsArchive(tar) ==
    [tarFile |-> tar, touched |-> {}, error |-> "DownloadError"]

\* The catch handler of downloadFile for a rejection that is no abort:
\* unlinkFile(tarFile), then throw 'Download of ... failed with: ...'.
DownloadFailed(tar) ==
    [tarFile |-> unlinkFile(tar), touched |-> {"unlink"},
     error |-> "DownloadError"]

\* A faulty mkdirSync catch block that leaves the archive behind.
MkdirFailedKeepsArchive(tar) ==
    [tarFile |-> tar, touched |-> {}, error |-> "DirectoryCreationError"]

\* The catch block of mkdirSync: unlinkFile(tarFile), then throw 'Failed to
\* make folder ...'.
MkdirFailed(tar) ==
    [tarFile |-> unlinkFile(tar), touched |-> {"unlink"},
     error |-> "DirectoryCreationError"]

\* A faulty resolve that returns the record without measuring the folder.
ResolvedStale(info, dir) == info

\* `versionInfo.disksize = getFolderSize(installSubDir)` before returning.
Resolved(info, dir) == [info EXCEPT !.disksize = getFolderSize(dir)]

\* The call ends: it rejects with `err`, or resolves when err = "success".
Finish(err) ==
    /\ pc' = "done"
    /\ outcome' = err

TypeOK ==
    /\ installDirKind \in {"missing", "file", "dir"}
    /\ tarFile \in {"absent", "stale", "partial"} \cup Archives
    /\ installSubDir.state \in {"absent", "empty", "partial", "complete"}
    /\ backupDir.state \in {"absent", "empty", "partial", "complete"}
    /\ overwrite \in BOOLEAN
    /\ pc \in {"idle", "entry", "preflight", "downloading", "verify",
               "extracting", "done"}
    /\ runs \in 0..MaxRuns
    /\ chunks \in 0..MaxChunks

Init ==
    /\ installDirKind \in {"missing", "file", "dir"}
    /\ tarFile \in (IF installDirKind = "dir" THEN {"absent", "stale"}
                    ELSE {"absent"})
    /\ installSubDir \in (IF installDirKind = "dir" THEN {Absent, Complete(0)}
                          ELSE {Absent})
    /\ backupDir = Absent
    /\ versionInfo = [download |-> "", checksum |-> "", disksize |-> 0]
    /\ overwrite = FALSE
    /\ sourceChecksum = Undefined
    /\ pc = "idle"
    /\ outcome = "none"
    /\ returned = "none"
    /\ chunks = 0
    /\ runs = 0
    /\ start = [tarFile |-> tarFile, installSubDir |-> installSubDir,
                backupDir |-> backupDir, disksize |-> 0]
    /\ fetcherCalls = 0
    /\ extractorCalls = 0
    /\ touched = {}
    /\ trace = <<>>
    /\ progressLog = <<>>
    /\ prev = [overwrite |-> FALSE, outcome |-> "none", fetched |-> 0]
    /\ rejection = "none"
    /\ downloadChecksum = <<>>

\* The caller invokes installVersion({versionInfo, installDir, overwrite}).
Call(ow, dl, ck) ==
    /\ pc \in {"idle", "done"}
    /\ runs < MaxRuns
    /\ runs' = runs + 1
    /\ versionInfo' = [download |-> dl, checksum |-> ck,
                       disksize |-> versionInfo.disksize]
    /\ overwrite' = ow
    /\ sourceChecksum' = Undefined
    /\ pc' = "entry"
    /\ outcome' = "none"
    /\ returned' = "none"
    /\ chunks' = 0
    /\ start' = [tarFile |-> tarFile, installSubDir |-> installSubDir,
                 backupDir |-> backupDir, disksize |-> versionInfo.disksize]
    /\ fetcherCalls' = 0
    /\ extractorCalls' = 0
    /\ touched' = {}
    /\ trace' = <<>>
    /\ progressLog' = <<>>
    /\ prev' = IF pc = "done"
               THEN [overwrite |-> overwrite, outcome |-> outcome,
                     fetched |-> fetcherCalls]
               ELSE prev
    /\ rejection' = "none"
    /\ downloadChecksum' = <<>>
    /\ UNCHANGED <<installDirKind, tarFile, installSubDir, backupDir>>

\* Variable declarations: sourceChecksum is awaited from axios before any
\* check is made; a failed request rejects the call.
FetchChecksum(ok, text) ==
    /\ pc = "entry"
    /\ UNCHANGED <<installDirKind, tarFile, installSubDir, backupDir,
                   versionInfo, overwrite, returned, chunks, runs, start,
                   fetcherCalls, extractorCalls, touched, progressLog, prev,
                   rejection, downloadChecksum>>
    /\ IF versionInfo.checksum = ""
       THEN /\ sourceChecksum' = Undefined
            /\ pc' = "preflight"
            /\ UNCHANGED <<trace, outcome>>
       ELSE /\ trace' = Append(trace, "manifest")
            /\ IF ok
               THEN /\ sourceChecksum' = Text(text)
                    /\ pc' = "preflight"
                    /\ UNCHANGED outcome
               ELSE /\ sourceChecksum' = Undefined
                    /\ Finish("HttpError")

\* Installation process up to the start of the download: the target checks,
\* the download-link check, the already-installed return, the removal of a
\* stale archive and the call of downloadFile.
Preflight ==
    /\ pc = "preflight"
    /\ chunks' = 0
    /\ UNCHANGED <<installDirKind, installSubDir, backupDir, overwrite,
                   sourceChecksum, runs, start, extractorCalls, progressLog,
                   prev, rejection, downloadChecksum>>
    /\ CASE installDirKind # "dir" ->
                /\ trace' = Append(trace, "validate")
                /\ UNCHANGED <<tarFile, versionInfo, returned, fetcherCalls,
                               touched>>
                /\ Finish("InvalidTargetError")
         [] installDirKind = "dir" /\ versionInfo.download = "" ->
                /\ trace' = Append(trace, "validate")
                /\ UNCHANGED <<tarFile, versionInfo, returned, fetcherCalls,
                               touched>>
                /\ Finish("MissingDownloadLinkError")
         [] /\ installDirKind = "dir"
            /\ versionInfo.download # ""
            /\ AlreadyInstalled(installSubDir, overwrite) ->
                /\ trace' = trace \o <<"validate", "skip">>
                /\ versionInfo' = Resolved(versionInfo, installSubDir)
                /\ returned' = "installSubDir"
                /\ UNCHANGED <<tarFile, fetcherCalls, touched>>
                /\ Finish("success")
         [] OTHER ->
                /\ trace' = trace \o <<"validate", "skip", "download">>
                /\ tarFile' = unlinkFile(tarFile)
                /\ touched' = touched \cup {"unlink"}
                /\ fetcherCalls' = fetcherCalls + 1
                /\ pc' = "downloading"
                /\ UNCHANGED <<versionInfo, returned, outcome>>

\* downloadFile reports progress: getProgress forwards 'downloading'.
DownloadProgress ==
    /\ pc = "downloading"
    /\ chunks < MaxChunks
    /\ chunks' = chunks + 1
    /\ tarFile' = FetcherWrite
    /\ touched' = touched \cup {"writeArchive"}
    /\ progressLog' = Append(progressLog, "downloading")
    /\ UNCHANGED <<installDirKind, installSubDir, backupDir, versionInfo,
                   overwrite, sourceChecksum, pc, outcome, returned, runs,
                   start, fetcherCalls, extractorCalls, trace, prev,
                   rejection, downloadChecksum>>

\* downloadFile resolves: the archive file holds the bytes the server sent.
DownloadResolve(bytes) ==
    /\ pc = "downloading"
    /\ tarFile' = bytes
    /\ touched' = touched \cup {"writeArchive"}
    /\ pc' = "verify"
    /\ UNCHANGED <<installDirKind, installSubDir, backupDir, versionInfo,
                   overwrite, sourceChecksum, outcome, returned, chunks, runs,
                   start, fetcherCalls, extractorCalls, trace, progressLog,
                   prev, rejection, downloadChecksum>>

\* downloadFile rejects and the catch handler runs: `abort` is whether the
\* rejection text includes 'AbortError'.
DownloadReject(abort) ==
    /\ pc = "downloading"
    /\ UNCHANGED <<installDirKind, backupDir, versionInfo, overwrite,
                   sourceChecksum, returned, chunks, runs, start, fetcherCalls,
                   extractorCalls, trace, progressLog, prev, downloadChecksum>>
    /\ rejection' = IF abort THEN "downloadAbort" ELSE "downloadError"
    /\ IF abort
       THEN LET h == abortHandler(tarFile, installSubDir) IN
            /\ tarFile' = h.tarFile
            /\ installSubDir' = h.installSubDir
            /\ touched' = touched \cup h.touched
            /\ Finish(h.error)
       ELSE LET f == DownloadFailed(tarFile) IN
            /\ tarFile' = f.tarFile
            /\ touched' = touched \cup f.touched
            /\ UNCHANGED installSubDir
            /\ Finish(f.error)

\* After the download: hash the archive and compare with the manifest, then
\* make the install subdirectory (fresh) or rename the old one aside
\* (overwrite), then call unzipFile.
VerifyAndPrepare(mkdirAllowed) ==
    /\ pc = "verify"
    /\ chunks' = 0
    /\ UNCHANGED <<installDirKind, versionInfo, overwrite, sourceChecksum,
                   returned, runs, start, fetcherCalls, progressLog, prev,
                   rejection>>
    /\ downloadChecksum' = Sha512Hex(tarFile)
    /\ LET made == mkdirSync(installSubDir, mkdirAllowed)
           moved == renameSync(installSubDir, backupDir)
       IN
       CASE ChecksumFails(sourceChecksum, downloadChecksum') ->
                /\ trace' = Append(trace, "checksum")
                /\ tarFile' = unlinkFile(tarFile)
                /\ touched' = touched \cup {"unlink"}
                /\ UNCHANGED <<installSubDir, backupDir, extractorCalls>>
                /\ Finish("ChecksumMismatchError")
         [] ~ChecksumFails(sourceChecksum, downloadChecksum')
            /\ ~overwrite /\ ~made.ok ->
                /\ trace' = trace \o <<"checksum", "prepare">>
                /\ tarFile' = MkdirFailed(tarFile).tarFile
                /\ touched' = touched \cup MkdirFailed(tarFile).touched
                /\ UNCHANGED <<installSubDir, backupDir, extractorCalls>>
                /\ Finish(MkdirFailed(tarFile).error)
         [] ~ChecksumFails(sourceChecksum, downloadChecksum')
            /\ ~overwrite /\ made.ok ->
                /\ trace' = trace \o <<"checksum", "prepare", "extract">>
                /\ installSubDir' = made.dir
                /\ touched' = touched \cup {"mkdir"}
                /\ extractorCalls' = extractorCalls + 1
                /\ pc' = "extracting"
                /\ UNCHANGED <<tarFile, backupDir, outcome>>
         [] ~ChecksumFails(sourceChecksum, downloadChecksum')
            /\ overwrite /\ ~moved.ok ->
                /\ trace' = trace \o <<"checksum", "prepare">>
                /\ UNCHANGED <<tarFile, installSubDir, backupDir, touched,
                               extractorCalls>>
                /\ Finish(moved.error)
         [] OTHER ->
                /\ trace' = trace \o <<"checksum", "prepare", "extract">>
                /\ installSubDir' = moved.from
                /\ backupDir' = moved.to
                /\ touched' = touched \cup {"renameAside"}
                /\ extractorCalls' = extractorCalls + 1
                /\ pc' = "extracting"
                /\ UNCHANGED <<tarFile, outcome>>

\* A faulty pipeline that does not await downloadFile: the extractor runs,
\* and reports progress, while the download is still under way.
UnzipProgressNoAwait ==
    /\ pc \in {"downloading", "extracting"}
    /\ chunks < MaxChunks
    /\ chunks' = chunks + 1
    /\ installSubDir' = ExtractorWrite(runs)
    /\ touched' = touched \cup {"writeInstall"}
    /\ progressLog' = Append(progressLog, "unzipping")
    /\ UNCHANGED <<installDirKind, tarFile, backupDir, versionInfo, overwrite,
                   sourceChecksum, pc, outcome, returned, runs, start,
                   fetcherCalls, extractorCalls, trace, prev,
                   rejection, downloadChecksum>>

\* unzipFile reports progress while it writes into the install subdirectory.
UnzipProgress ==
    /\ pc = "extracting"
    /\ chunks < MaxChunks
    /\ chunks' = chunks + 1
    /\ installSubDir' = ExtractorWrite(runs)
    /\ touched' = touched \cup {"writeInstall"}
    /\ progressLog' = Append(progressLog, "unzipping")
    /\ UNCHANGED <<installDirKind, tarFile, backupDir, versionInfo, overwrite,
                   sourceChecksum, pc, outcome, returned, runs, start,
                   fetcherCalls, extractorCalls, trace, prev,
                   rejection, downloadChecksum>>

\* unzipFile resolves; clean up: drop the backup (overwrite), delete the
\* archive, store the measured size and resolve.
UnzipResolve ==
    /\ pc = "extracting"
    /\ UNCHANGED <<installDirKind, overwrite, sourceChecksum, chunks, runs,
                   start, fetcherCalls, extractorCalls, progressLog, prev,
                   rejection, downloadChecksum>>
    /\ trace' = Append(trace, "commit")
    /\ installSubDir' = ExtractorDone(runs)
    /\ LET dropped == rmSync(backupDir) IN
       IF overwrite /\ ~dropped.ok
       THEN /\ touched' = touched \cup {"writeInstall"}
            /\ UNCHANGED <<tarFile, backupDir, versionInfo, returned>>
            /\ Finish(dropped.error)
       ELSE /\ backupDir' = IF overwrite THEN dropped.dir ELSE backupDir
            /\ tarFile' = unlinkFile(tarFile)
            /\ touched' = touched \cup {"writeInstall", "unlink"}
                               \cup (IF overwrite THEN {"rmBackup"} ELSE {})
            /\ versionInfo' = Resolved(versionInfo, installSubDir')
            /\ returned' = "installSubDir"
            /\ Finish("success")

\* unzipFile rejects and the catch handler runs: `abort` is whether the
\* rejection text includes 'AbortError'.
UnzipReject(abort) ==
    /\ pc = "extracting"
    /\ UNCHANGED <<installDirKind, versionInfo, overwrite, sourceChecksum,
                   returned, chunks, runs, start, fetcherCalls, extractorCalls,
                   trace, progressLog, prev, downloadChecksum>>
    /\ rejection' = IF abort THEN "unzipAbort" ELSE "unzipError"
    /\ IF abort
       THEN LET h == abortHandler(tarFile, installSubDir) IN
            /\ tarFile' = h.tarFile
            /\ installSubDir' = h.installSubDir
            /\ touched' = touched \cup h.touched
            /\ UNCHANGED backupDir
            /\ Finish(h.error)
       ELSE LET removed == rmSync(installSubDir)
                restored == renameSync(backupDir, removed.dir)
            IN
            CASE ~removed.ok ->
                    /\ UNCHANGED <<tarFile, installSubDir, backupDir, touched>>
                    /\ Finish(removed.error)
              [] removed.ok /\ ~overwrite ->
                    /\ installSubDir' = removed.dir
                    /\ tarFile' = unlinkFile(tarFile)
                    /\ touched' = touched \cup {"rmInstall", "unlink"}
                    /\ UNCHANGED backupDir
                    /\ Finish("ExtractionError")
              [] removed.ok /\ overwrite /\ ~restored.ok ->
                    /\ installSubDir' = removed.dir
                    /\ tarFile' = unlinkFile(tarFile)
                    /\ touched' = touched \cup {"rmInstall", "unlink"}
                    /\ UNCHANGED backupDir
                    /\ Finish(restored.error)
              [] OTHER ->
                    /\ installSubDir' = restored.to
                    /\ backupDir' = restored.from
                    /\ tarFile' = unlinkFile(tarFile)
                    /\ touched' = touched \cup {"rmInstall", "unlink",
                                                "renameBack"}
                    /\ Finish("ExtractionError")

Next ==
    \/ \E ow \in BOOLEAN, dl \in DownloadUrls, ck \in ChecksumUrls :
           Call(ow, dl, ck)
    \/ \E ok \in BOOLEAN, text \in Manifests : FetchChecksum(ok, text)
    \/ Preflight
    \/ DownloadProgress
    \/ \E bytes \in Archives : DownloadResolve(bytes)
    \/ \E abort \in BOOLEAN : DownloadReject(abort)
    \/ \E mkdirAllowed \in BOOLEAN : VerifyAndPrepare(mkdirAllowed)
    \/ UnzipProgress
    \/ UnzipResolve
    \/ \E abort \in BOOLEAN : UnzipReject(abort)

Spec == Init /\ [][Next]_vars

\* =================================================================
\* Properties
\* =================================================================
Done == pc = "done"

\* The running call was given overwrite=true over a complete install.
OverwriteOfInstall ==
    overwrite /\ start.installSubDir.state = "complete"

\* The three paths are as they were when the call started.
DiskUnchanged ==
    /\ tarFile = start.tarFile
    /\ installSubDir = start.installSubDir
    /\ backupDir = start.backupDir

\* C1: an overwrite=true call that starts with a complete install and ends
\* in success, a download failure, an abort or a checksum mismatch or an
\* extraction failure leaves the install subdirectory holding either the
\* newly extracted contents or the original contents.
C1_OverwriteAtomicity ==
    (Done /\ OverwriteOfInstall /\ fetcherCalls = 1)
        => installSubDir \in {start.installSubDir, Complete(runs)}

\* C2: in an overwrite=true call over an existing install, a non-abort
\* rejection of the extractor leaves the original install in place, no
\* archive, no backup directory, and raises the extraction error.
C2_RollbackOnExtractionFailure ==
    (Done /\ OverwriteOfInstall /\ rejection = "unzipError")
        => /\ installSubDir = start.installSubDir
           /\ tarFile = "absent"
           /\ backupDir = Absent
           /\ outcome = "ExtractionError"

\* C3: in an overwrite=true call over an existing install, an abort during
\* extraction deletes the partial install and the archive, renames the
\* backup back to the install subdirectory and ends with AbortError.
C3_RollbackOnAbortDuringExtraction ==
    (Done /\ OverwriteOfInstall /\ rejection = "unzipAbort")
        => /\ installSubDir = start.installSubDir
           /\ tarFile = "absent"
           /\ backupDir = Absent
           /\ outcome = "AbortError"

\* C4: in an overwrite=true call over an existing install, an abort during
\* the download leaves that install in place and ends with AbortError.
C4_AbortDuringDownloadKeepsInstall ==
    (Done /\ OverwriteOfInstall /\ rejection = "downloadAbort")
        => /\ installSubDir = start.installSubDir
           /\ "rmInstall" \notin touched
           /\ outcome = "AbortError"

\* C5: a call that started without an install subdirectory and whose
\* download is aborted ends with AbortError, runs no later phase and leaves
\* neither the archive file nor the install subdirectory.
C5_AbortDuringDownloadTerminates ==
    (Done /\ ~existsSync(start.installSubDir) /\ rejection = "downloadAbort")
        => /\ outcome = "AbortError"
           /\ trace[Len(trace)] = "download"
           /\ extractorCalls = 0
           /\ downloadChecksum = <<>>
           /\ touched \subseteq {"unlink", "writeArchive"}
           /\ tarFile = "absent"
           /\ ~existsSync(installSubDir)

\* C5 witness: the abort came after bytes had been written to the archive.
C5_Witness ==
    /\ Done
    /\ ~existsSync(start.installSubDir)
    /\ rejection = "downloadAbort"
    /\ "writeArchive" \in touched
    /\ outcome = "AbortError"

\* C6: when a call has ended, with any outcome, the install path is absent
\* or holds a complete install: the one the call started with or the one
\* it extracted.
C6_NoHalfExtractedInstall ==
    Done => \/ installSubDir = Absent
            \/ /\ installSubDir.state = "complete"
               /\ installSubDir \in {start.installSubDir, Complete(runs)}

\* C6 witness: the extractor had written part of the install when the call
\* failed, and the call ended with the install path clean.
C6_Witness ==
    /\ Done
    /\ rejection \in {"unzipAbort", "unzipError"}
    /\ "writeInstall" \in touched
    /\ installSubDir.state \in {"absent", "complete"}

\* C7: a call that got past validation and the already-installed check has
\* no archive file left when it ends.
C7_ArchiveTransient ==
    (Done /\ fetcherCalls = 1) => tarFile = "absent"

\* C8: with a checksum URL, a manifest (empty or not) that does not contain
\* the digest of the downloaded archive makes the call fail with the
\* checksum error, delete the archive and leave the directories alone,
\* without the extractor being called.
C8_ChecksumEnforced ==
    (/\ Done
     /\ versionInfo.checksum # ""
     /\ sourceChecksum.defined
     /\ downloadChecksum # <<>>
     /\ ~Includes(sourceChecksum.text, downloadChecksum))
        => /\ outcome = "ChecksumMismatchError"
           /\ tarFile = "absent"
           /\ extractorCalls = 0
           /\ installSubDir = start.installSubDir
           /\ backupDir = start.backupDir

\* C9: a call whose target is missing or not a directory fails with the
\* invalid-target error, one with a valid target and no download link with
\* the missing-link error; neither touches the disk nor calls the fetcher
\* or the extractor.
C9_PreflightBeforeSideEffects ==
    /\ (Done /\ installDirKind # "dir")
           => /\ outcome = "InvalidTargetError"
              /\ DiskUnchanged /\ touched = {}
              /\ fetcherCalls = 0 /\ extractorCalls = 0
    /\ (Done /\ installDirKind = "dir" /\ versionInfo.download = "")
           => /\ outcome = "MissingDownloadLinkError"
              /\ DiskUnchanged /\ touched = {}
              /\ fetcherCalls = 0 /\ extractorCalls = 0

\* The call passed validation with overwrite=false over an existing install.
SkipCase ==
    /\ Done
    /\ "validate" \in {trace[i] : i \in 1..Len(trace)}
    /\ installDirKind = "dir"
    /\ versionInfo.download # ""
    /\ ~overwrite
    /\ existsSync(start.installSubDir)

\* The already-installed return: success with the install path and the
\* measured size, nothing fetched, nothing extracted, nothing on disk changed.
SkipReturns ==
    SkipCase
        => /\ outcome = "success"
           /\ returned = "installSubDir"
           /\ versionInfo.disksize = getFolderSize(start.installSubDir)
           /\ fetcherCalls = 0 /\ extractorCalls = 0
           /\ DiskUnchanged /\ touched = {}

Phases == {trace[i] : i \in 1..Len(trace)}

\* C11: a call whose download, checksum verification and extraction all
\* succeeded returns success with the install path; the install holds the
\* newly extracted contents, the archive and the backup directory are
\* absent, and the record's disk size is the measured size of the install.
C11_SuccessfulCompletion ==
    (Done /\ "commit" \in Phases)
        => /\ outcome = "success"
           /\ returned = "installSubDir"
           /\ installSubDir = Complete(runs)
           /\ tarFile = "absent"
           /\ backupDir = Absent
           /\ versionInfo.disksize = getFolderSize(installSubDir)

\* C12: the backup directory exists only inside an overwrite=true call,
\* between the rename of the old install and the commit or rollback: no
\* call ends with it present, only the rename-aside of an overwrite=true
\* call brings it into being, and an overwrite=false call never changes it.
C12_BackupTransient ==
    /\ Done => backupDir = Absent
    /\ (existsSync(backupDir) /\ backupDir # start.backupDir)
           => (overwrite /\ "renameAside" \in touched)
    /\ ~overwrite
           => /\ backupDir = start.backupDir
              /\ touched \cap {"renameAside", "renameBack", "rmBackup"} = {}

\* Position of a phase in the order validate, skip-check, download,
\* checksum, extract, commit; fetching the manifest is checksum work and
\* renaming the old install aside or making the directory is extraction work.
PhaseRank(ph) ==
    CASE ph = "validate" -> 1
      [] ph = "skip" -> 2
      [] ph = "download" -> 3
      [] ph \in {"manifest", "checksum"} -> 4
      [] ph \in {"prepare", "extract"} -> 5
      [] OTHER -> 6

\* C13: the phases of a call are entered in the order validate, skip-check,
\* download, checksum, extract, commit; the manifest fetch comes after
\* validation, the skip-check and the download, and extraction work comes
\* after the checksum verification.
C13_StrictPhaseOrder ==
    /\ \A i, j \in 1..Len(trace) :
           i < j => PhaseRank(trace[i]) <= PhaseRank(trace[j])
    /\ "manifest" \in Phases => {"validate", "skip", "download"} \subseteq Phases
    /\ "manifest" \in Phases => pc \notin {"entry", "preflight", "downloading"}
    /\ "prepare" \in Phases => "checksum" \in Phases

\* C14: every 'downloading' report precedes every report of the
\* extraction phase; extraction reports are made only once the download has
\* finished and the checksum has passed, never in a call whose download or
\* checksum verification failed; a call that fails validation or returns the
\* existing install makes no report at all.
C14_ProgressOrdering ==
    /\ \A i, j \in 1..Len(progressLog) :
           (i < j /\ progressLog[i] # "downloading")
               => progressLog[j] # "downloading"
    /\ (\E i \in 1..Len(progressLog) : progressLog[i] # "downloading")
           => /\ "extract" \in Phases
              /\ pc \in {"extracting", "done"}
              /\ rejection \notin {"downloadAbort", "downloadError"}
              /\ outcome # "ChecksumMismatchError"
    /\ (Done /\ fetcherCalls = 0) => progressLog = <<>>
    /\ pc \in {"entry", "preflight"} => progressLog = <<>>

\* C14 witness: a call reported download progress and then extraction
\* progress.
C14_Witness ==
    /\ Len(progressLog) >= 2
    /\ progressLog[1] = "downloading"
    /\ progressLog[Len(progressLog)] = "unzipping"

\* C15: a call whose download fails with an error that is no abort deletes
\* the partial archive, ends with the download error, enters no later phase
\* and leaves the install subdirectory and the backup directory as they were.
C15_DownloadFailure ==
    (Done /\ rejection = "downloadError")
        => /\ outcome = "DownloadError"
           /\ tarFile = "absent"
           /\ installSubDir = start.installSubDir
           /\ backupDir = start.backupDir
           /\ trace[Len(trace)] = "download"
           /\ downloadChecksum = <<>>
           /\ extractorCalls = 0
           /\ touched \subseteq {"unlink", "writeArchive"}

\* C15 witness: the download of an overwrite=true call over an existing
\* install failed after bytes had been written.
C15_Witness ==
    /\ Done
    /\ rejection = "downloadError"
    /\ "writeArchive" \in touched
    /\ OverwriteOfInstall
    /\ outcome = "DownloadError"

\* C16: whenever the abort routine has run, from the download or from the
\* extraction, the archive is deleted, the install subdirectory is gone, the
\* error is AbortError, and the backup directory is where the calling phase
\* left it: not renamed back, not deleted.
C16_SharedAbortRoutine ==
    (Done /\ rejection \in {"downloadAbort", "unzipAbort"})
        => /\ outcome = "AbortError"
           /\ tarFile = "absent"
           /\ installSubDir = Absent
           /\ touched \cap {"renameBack", "rmBackup"} = {}
           /\ backupDir = IF "renameAside" \in touched
                          THEN start.installSubDir
                          ELSE start.backupDir

\* C16 witness: the abort routine ran from the extraction of an
\* overwrite=true call, with a partly extracted install and a backup on disk.
C16_Witness ==
    /\ Done
    /\ rejection = "unzipAbort"
    /\ overwrite
    /\ "writeInstall" \in touched
    /\ "rmInstall" \in touched
    /\ existsSync(backupDir)

\* C17: the record's disk size is the measured size when a call returns
\* success and is unchanged in every call that has not, or that ends with an
\* error; inside a call the record changes only in the step that returns
\* success, and then only in its disk size.
C17_RecordMutation ==
    /\ []((Done /\ outcome = "success")
              => versionInfo.disksize = getFolderSize(installSubDir))
    /\ [](outcome # "success" => versionInfo.disksize = start.disksize)
    /\ [][(versionInfo' # versionInfo /\ pc \notin {"idle", "done"})
              => /\ pc' = "done" /\ outcome' = "success"
                 /\ versionInfo'.download = versionInfo.download
                 /\ versionInfo'.checksum = versionInfo.checksum]_vars

\* C17 witness: a call returned success and the record's disk size changed.
C17_Witness ==
    /\ Done
    /\ outcome = "success"
    /\ versionInfo.disksize # start.disksize
    /\ versionInfo.disksize = getFolderSize(installSubDir)

\* C18: in an overwrite=false call whose mkdirSync fails after the download
\* was verified, the archive is deleted, the call ends with the
\* directory-creation error and the extractor is never called.
C18_DirectoryCreationFailure ==
    (Done /\ ~overwrite /\ trace[Len(trace)] = "prepare")
        => /\ outcome = "DirectoryCreationError"
           /\ tarFile = "absent"
           /\ "unlink" \in touched
           /\ extractorCalls = 0
           /\ installSubDir = start.installSubDir

\* C18 witness: mkdirSync failed after a download whose digest the manifest
\* contains.
C18_Witness ==
    /\ Done
    /\ ~overwrite
    /\ trace[Len(trace)] = "prepare"
    /\ Truthy(sourceChecksum)
    /\ Includes(sourceChecksum.text, downloadChecksum)
    /\ outcome = "DirectoryCreationError"

\* C19: an overwrite=true call that finds no install subdirectory to rename
\* aside ends with the error of that rename; the extractor is never called,
\* no install subdirectory and no backup directory come into being, and the
\* call does not return success.
C19_OverwriteWithoutInstall ==
    (Done /\ overwrite /\ ~existsSync(start.installSubDir)
          /\ "prepare" \in Phases)
        => /\ outcome = "ENOENT"
           /\ trace[Len(trace)] = "prepare"
           /\ extractorCalls = 0
           /\ installSubDir = Absent
           /\ backupDir = start.backupDir
           /\ touched \cap {"mkdir", "renameAside", "writeInstall"} = {}

\* C19 witness: download and checksum verification succeeded and the rename
\* of the missing install failed.
C19_Witness ==
    /\ Done
    /\ overwrite
    /\ ~existsSync(start.installSubDir)
    /\ Truthy(sourceChecksum)
    /\ Includes(sourceChecksum.text, downloadChecksum)
    /\ outcome = "ENOENT"

====
